---- MODULE Spec2Model ----
(***************************************************************************)
(* Remsh: a fork-per-connection command server (src/src/server.cpp) and    *)
(* its client (src/src/client.cpp).                                        *)
(*                                                                         *)
(* The model has three kinds of processes:                                 *)
(*   - the server's main process (the admission loop, the SIGCHLD handler  *)
(*     that runs inside ppoll, the final waitpid loop);                    *)
(*   - one worker per accepted connection (handle_request);                *)
(*   - the clients (client.cpp main).                                      *)
(* A connection is two byte streams, c2s and s2c.  Bytes are numbers       *)
(* (ASCII codes); NUL is the sentinel.                                     *)
(*                                                                         *)
(* Signals follow Linux: SIGCHLD is a standard signal (one pending         *)
(* instance at most, so raises coalesce); it is blocked in the parent      *)
(* except inside ppoll(.., &emptymask); ppoll scans the descriptors first  *)
(* and delivers a pending signal only when it returns -1/EINTR.            *)
(***************************************************************************)
EXTENDS Integers, Sequences, FiniteSets, TLC

(* ------------------------------ bounds ------------------------------- *)

\* Number of client processes that may be started.
NClients == 2

\* Number of commands an interactive user types before typing "exit".
MaxLines == 1

Clients == 1..NClients

(* ------------------------- program constants ------------------------- *)

\* server.cpp:36  const int BUFFERSIZE = 512
BUFFERSIZE == 512

\* client.cpp:32  static const unsigned BUFFERSIZE = 1024
ClientBUFFERSIZE == 1024

\* '\0', the sentinel byte
NUL == 0

\* '\n'
LF == 10

\* the literal "exit" (client.cpp:147)
EXIT == <<101, 120, 105, 116>>

(* ------------------------------ inputs ------------------------------- *)

\* "ls"
CmdLs == <<108, 115>>

\* "true": a command that prints nothing
CmdTrue == <<116, 114, 117, 101>>

\* "p": a command whose output holds a NUL byte
CmdP == <<112>>

\* ' ', which the shell skips at the end of a command
SPACE == 32

\* "ls" followed by BUFFERSIZE spaces: two bytes longer than the worker's
\* receive buffer
CmdLong == CmdLs \o [i \in 1..BUFFERSIZE |-> SPACE]

\* the command strings given with -c
BatchCmds == {CmdLs, CmdP, EXIT, CmdLong}

\* the commands an interactive user types before "exit"
Lines == {CmdLs}

(* ------------------------ byte-string helpers ------------------------ *)

Min(a, b) == IF a < b THEN a ELSE b

\* The C string held in a byte array: the bytes before the first NUL.
CStr(s) ==
  LET z == {i \in 1..Len(s) : s[i] = NUL}
  IN  IF z = {} THEN s
      ELSE SubSeq(s, 1, (CHOOSE i \in z : \A j \in z : i <= j) - 1)

\* std::string::c_str() with size()+1 bytes: the text and one NUL.
WithNul(s) == s \o <<NUL>>

\* Number of NUL bytes in s.
NulCount(s) == Cardinality({i \in 1..Len(s) : s[i] = NUL})

\* cmd without the spaces at its end.
Trim(cmd) ==
  LET ns == {i \in 1..Len(cmd) : cmd[i] # SPACE}
  IN  IF ns = {} THEN <<>>
      ELSE SubSeq(cmd, 1, CHOOSE i \in ns : \A j \in ns : j <= i)

\* The standard output of the shell run on cmd (popen's read end): "ls" lists
\* one file, "p" prints bytes with a NUL among them, anything else prints nothing.
popen_output(cmd) ==
  CASE Trim(cmd) = CmdLs -> <<102, LF>>
    [] Trim(cmd) = CmdP  -> <<120, NUL, 121, LF, 122>>
    [] OTHER             -> <<>>

\* fgets(buffer, BUFFERSIZE, pipe): at most BUFFERSIZE-1 bytes, through the
\* first newline.  The number of bytes it takes from raw.
fgets_len(raw) ==
  LET nl == {i \in 1..Len(raw) : raw[i] = LF}
      k  == IF nl = {} THEN Len(raw)
            ELSE CHOOSE i \in nl : \A j \in nl : i <= j
  IN  Min(k, BUFFERSIZE - 1)

\* while (!feof(pipe)) if (fgets(..) != NULL) result.append(buffer);
\* append(const char*) takes the C string of what fgets stored.
RECURSIVE fgets_loop(_)
fgets_loop(raw) ==
  IF raw = <<>> THEN <<>>
  ELSE LET k == fgets_len(raw)
       IN  CStr(SubSeq(raw, 1, k)) \o fgets_loop(SubSeq(raw, k + 1, Len(raw)))

\* cout << buffer << '\n' for one received chunk.
cout_chunk(chunk) == CStr(chunk) \o <<LF>>

(* ------------------------------ state -------------------------------- *)

VARIABLES
  \* server main process
  mainpc,                 \* "ppoll","accept","fork","incr","reap","close","exited","aborted"
  errno,                  \* the parent's errno
  actvConns,              \* server.cpp:37
  stillHandlingRequests,  \* server.cpp:39
  sigPending,             \* a SIGCHLD is pending for the parent
  brk,                    \* which break left the main loop
  tvNsecValid,            \* ts.tv_nsec (never initialised) is a valid nanosecond count
  backlog,                \* connections completed and not yet accepted
  sessFD,                 \* the session accepted last (0: none)
  parentFds,              \* session handles open in the parent
  \* workers, one per accepted connection, named by the client they serve
  wpc,                    \* "none","ppoll","popen","send","teardown","kill","return","exited","reaped"
  wwhy,                   \* which break left the worker's loop
  buffer,                 \* bytes of the last recv
  result,                 \* captured output
  unsent,                 \* bytes of the last Response that send did not take
  wire,                   \* every byte the worker's sends transmitted (until teardown)
  handled,                \* the commands run by the worker (until teardown)
  \* connections
  c2s, s2c,
  ioError,                \* a system call of a worker or of a client has failed
  \* clients
  run,                    \* the client's command line and the user's input to come
  cpc,                    \* "absent","init","top","read","after","teardown","done","failed"
  cwhy,                   \* which break left the client's loop
  noninteractive,
  command,
  wrote,                  \* every byte the client's writes transmitted (until it ends)
  stdin,                  \* the lines the user is still to type
  typed,                  \* the lines read from the terminal (until it ends)
  rcvd,                   \* the bytes read for the current Response
  display,                \* what was printed for the current Response
  lastread                \* thisreadn of the last read

mainVars   == <<mainpc, errno, actvConns, stillHandlingRequests, brk, tvNsecValid,
                sessFD, parentFds>>
workerVars == <<wpc, wwhy, buffer, result, unsent, wire, handled>>
clientVars == <<run, cpc, cwhy, noninteractive, command, wrote, stdin, typed, rcvd, display,
                lastread>>
vars == <<mainVars, sigPending, backlog, workerVars, c2s, s2c, ioError, clientVars>>

RECURSIVE SeqsUpTo(_, _)
\* The sequences over S of length at most n.
SeqsUpTo(S, n) ==
  IF n = 0 THEN {<<>>}
  ELSE LET shorter == SeqsUpTo(S, n - 1)
       IN  shorter \cup {Append(q, x) : q \in shorter, x \in S}

\* What a user may type at the prompt: some commands, then "exit".
Typescripts == {Append(q, EXIT) : q \in SeqsUpTo(Lines, MaxLines)}

\* A client run: -c with a command string, or an interactive session.
Runs ==
  [batch : {TRUE}, cmd : BatchCmds, lines : {<<>>}]
    \cup [batch : {FALSE}, cmd : {<<>>}, lines : Typescripts]

\* The runs of the clients when several connect at once: one command without
\* output, or a session closed without a command.
LightRuns ==
  {[batch |-> TRUE, cmd |-> CmdTrue, lines |-> <<>>],
   [batch |-> FALSE, cmd |-> <<>>, lines |-> <<EXIT>>]}

\* The state after the server has bound and listens (server.cpp:154) and
\* before any client has started; run[c] is client c's command line and input.
InitWith(present, r) ==
  /\ mainpc = "ppoll"
  /\ errno = "0"
  /\ actvConns = 0
  /\ stillHandlingRequests = TRUE
  /\ sigPending = FALSE
  /\ brk = "none"
  /\ tvNsecValid \in BOOLEAN
  /\ backlog = <<>>
  /\ sessFD = 0
  /\ parentFds = {}
  /\ wpc = [w \in Clients |-> "none"]
  /\ wwhy = [w \in Clients |-> "none"]
  /\ buffer = [w \in Clients |-> <<>>]
  /\ result = [w \in Clients |-> <<>>]
  /\ unsent = [w \in Clients |-> 0]
  /\ wire = [w \in Clients |-> <<>>]
  /\ handled = [w \in Clients |-> <<>>]
  /\ c2s = [c \in Clients |-> <<>>]
  /\ s2c = [c \in Clients |-> <<>>]
  /\ ioError = FALSE
  /\ cpc = [c \in Clients |-> IF c \in present THEN "init" ELSE "absent"]
  /\ run = r
  /\ cwhy = [c \in Clients |-> "none"]
  /\ noninteractive = [c \in Clients |-> r[c].batch]
  /\ command = [c \in Clients |-> r[c].cmd]
  /\ stdin = [c \in Clients |-> r[c].lines]
  /\ wrote = [c \in Clients |-> <<>>]
  /\ typed = [c \in Clients |-> <<>>]
  /\ rcvd = [c \in Clients |-> <<>>]
  /\ display = [c \in Clients |-> <<>>]
  /\ lastread = [c \in Clients |-> 0]

\* Several clients, each with a light run.
Init == \E r \in [Clients -> LightRuns] : InitWith(Clients, r)

\* One client with any run; the other clients never start.
InitSession ==
  \E r1 \in Runs :
    InitWith({1}, [c \in Clients |-> IF c = 1 THEN r1 ELSE CHOOSE l \in LightRuns : TRUE])

(* ----------------------- server: main process ------------------------ *)

\* The listening socket is open until the process ends.
ListenOpen == mainpc \notin {"exited", "aborted"}

\* A SIGCHLD sent to the parent: it becomes (or stays) pending.
RaiseSIGCHLD == sigPending' = (ListenOpen \/ sigPending)

\* A changed line 67: SIGCHLD is blocked nowhere.
Blocked_never(pc) == FALSE

\* sigprocmask(SIG_BLOCK, {SIGCHLD}) before the loop, and ppoll(.., &emptymask):
\* SIGCHLD is blocked in the parent except while it is suspended in ppoll.
Blocked(pc) == pc # "ppoll"

\* A pending SIGCHLD is delivered to the parent at the step pc.
Delivered(pc) == sigPending /\ ~Blocked(pc)

\* sigchld_handler: actvConns--
handler_count(n) == n - 1

\* sigchld_handler: if (actvConns == 0) stillHandlingRequests = false
handler_flag(n, flag) == IF n = 0 THEN FALSE ELSE flag

\* A changed line 169: an interrupted wait goes back to waiting.
Line169_continue(e) == IF e = "EINTR" THEN "continue" ELSE "next"

\* if (errno == EINTR) break;
Line169(e) == IF e = "EINTR" THEN "break" ELSE "next"

\* A changed line 208: the count is printed, not incremented.
Line208_noincr(n) == n

\* verboseprint("Active connections: %d\n", ++actvConns)
Line208(n) == n + 1

\* Where the main loop goes after ppoll returned pollval with errno e:
\* <<next pc, break taken>>.
AfterPpoll(pollval, e, flag) ==
  CASE Line169(e) = "break"    -> <<"reap", "EINTR">>
    [] Line169(e) = "continue" -> <<"ppoll", brk>>
    [] OTHER ->
         IF pollval = -1 THEN <<"reap", "pollerr">>
         ELSE IF pollval > 0 THEN <<"accept", brk>>
         ELSE IF flag = FALSE THEN <<"reap", "shutdown">>
         ELSE <<"ppoll", brk>>

\* ppoll is interrupted: no connection is waiting and a SIGCHLD is pending.
\* The handler runs, ppoll returns -1 with errno EINTR.
m_ppoll_eintr ==
  /\ mainpc = "ppoll"
  /\ tvNsecValid
  /\ backlog = <<>>
  /\ Delivered("ppoll")
  /\ sigPending' = FALSE
  /\ actvConns' = handler_count(actvConns)
  /\ stillHandlingRequests' = handler_flag(actvConns', stillHandlingRequests)
  /\ errno' = "EINTR"
  /\ mainpc' = AfterPpoll(-1, errno', stillHandlingRequests')[1]
  /\ brk' = AfterPpoll(-1, errno', stillHandlingRequests')[2]
  /\ UNCHANGED <<ioError, tvNsecValid, sessFD, parentFds, backlog, workerVars, c2s, s2c, clientVars>>

\* ppoll rejects the timeout (tv_nsec out of range): -1 with errno EINVAL.
m_ppoll_error ==
  /\ mainpc = "ppoll"
  /\ ~tvNsecValid
  /\ errno' = "EINVAL"
  /\ mainpc' = AfterPpoll(-1, errno', stillHandlingRequests)[1]
  /\ brk' = AfterPpoll(-1, errno', stillHandlingRequests)[2]
  /\ UNCHANGED <<ioError, actvConns, stillHandlingRequests, sigPending, tvNsecValid, sessFD,
                 parentFds, backlog, workerVars, c2s, s2c, clientVars>>

\* ppoll reports the listening socket readable; errno is left as it was.
m_ppoll_ready ==
  /\ mainpc = "ppoll"
  /\ tvNsecValid
  /\ backlog # <<>>
  /\ mainpc' = AfterPpoll(1, errno, stillHandlingRequests)[1]
  /\ brk' = AfterPpoll(1, errno, stillHandlingRequests)[2]
  /\ UNCHANGED <<ioError, errno, actvConns, stillHandlingRequests, sigPending, tvNsecValid, sessFD,
                 parentFds, backlog, workerVars, c2s, s2c, clientVars>>

\* ppoll times out: nothing waiting, nothing pending.
m_ppoll_timeout ==
  /\ mainpc = "ppoll"
  /\ tvNsecValid
  /\ backlog = <<>>
  /\ ~sigPending
  /\ mainpc' = AfterPpoll(0, errno, stillHandlingRequests)[1]
  /\ brk' = AfterPpoll(0, errno, stillHandlingRequests)[2]
  /\ UNCHANGED <<ioError, errno, actvConns, stillHandlingRequests, sigPending, tvNsecValid, sessFD,
                 parentFds, backlog, workerVars, c2s, s2c, clientVars>>

\* accept() returns the first waiting connection; the parent now holds its handle.
m_accept_ok ==
  /\ mainpc = "accept"
  /\ backlog # <<>>
  /\ sessFD' = Head(backlog)
  /\ backlog' = Tail(backlog)
  /\ parentFds' = parentFds \cup {Head(backlog)}
  /\ mainpc' = "fork"
  /\ UNCHANGED <<ioError, errno, actvConns, stillHandlingRequests, sigPending, brk, tvNsecValid,
                 workerVars, c2s, s2c, clientVars>>

\* accept() fails (sessFD < 0): perror, break.
m_accept_fail ==
  /\ mainpc = "accept"
  /\ errno' = "EMFILE"
  /\ mainpc' = "reap"
  /\ brk' = "accept"
  /\ UNCHANGED <<ioError, actvConns, stillHandlingRequests, sigPending, tvNsecValid, sessFD,
                 parentFds, backlog, workerVars, c2s, s2c, clientVars>>

\* fork() succeeds: the child starts handle_request(sessFD, ..).
m_fork_ok ==
  /\ mainpc = "fork"
  /\ wpc' = [wpc EXCEPT ![sessFD] = "ppoll"]
  /\ mainpc' = "incr"
  /\ UNCHANGED <<ioError, errno, actvConns, stillHandlingRequests, sigPending, brk, tvNsecValid,
                 sessFD, parentFds, backlog, wwhy, buffer, result, unsent, wire, handled,
                 c2s, s2c, clientVars>>

\* fork() fails: abort().  The process dies with its descriptors.
m_fork_fail ==
  /\ mainpc = "fork"
  /\ errno' = "EAGAIN"
  /\ mainpc' = "aborted"
  /\ parentFds' = {}
  /\ UNCHANGED <<ioError, actvConns, stillHandlingRequests, sigPending, brk, tvNsecValid, sessFD,
                 backlog, workerVars, c2s, s2c, clientVars>>

\* In the parent after fork: ++actvConns; sessFD is not closed.  A SIGCHLD that
\* is deliverable here runs the handler before the increment.
m_incr ==
  /\ mainpc = "incr"
  /\ LET n == IF Delivered("incr") THEN handler_count(actvConns) ELSE actvConns
     IN  /\ actvConns' = Line208(n)
         /\ stillHandlingRequests' =
              IF Delivered("incr") THEN handler_flag(n, stillHandlingRequests)
              ELSE stillHandlingRequests
  /\ sigPending' = (sigPending /\ ~Delivered("incr"))
  /\ mainpc' = "ppoll"
  /\ UNCHANGED <<ioError, errno, brk, tvNsecValid, sessFD,
                 parentFds, backlog, workerVars, c2s, s2c, clientVars>>

\* A changed line 223: waitpid never finds a child to wait for.
HasChild_never == FALSE

\* The parent has a child that is not yet reaped.
HasChild == \E w \in Clients : wpc[w] \notin {"none", "reaped"}

\* waitpid(WAIT_ANY, NULL, 0) returns the pid of a terminated child.  It blocks
\* while children exist and none has terminated.  errno keeps its value.
m_waitpid_reap ==
  /\ mainpc = "reap"
  /\ \E w \in Clients :
       /\ wpc[w] = "exited"
       /\ wpc' = [wpc EXCEPT ![w] = "reaped"]
  /\ mainpc' = IF errno = "ECHILD" THEN "close" ELSE "reap"
  /\ UNCHANGED <<ioError, errno, actvConns, stillHandlingRequests, sigPending, brk, tvNsecValid,
                 sessFD, parentFds, backlog, wwhy, buffer, result, unsent, wire, handled,
                 c2s, s2c, clientVars>>

\* waitpid() finds no child: -1 with errno ECHILD, break.
m_waitpid_echild ==
  /\ mainpc = "reap"
  /\ ~HasChild
  /\ errno' = "ECHILD"
  /\ mainpc' = "close"
  /\ UNCHANGED <<ioError, actvConns, stillHandlingRequests, sigPending, brk, tvNsecValid, sessFD,
                 parentFds, backlog, workerVars, c2s, s2c, clientVars>>

\* close(connectFD); return 0.  The exit closes every descriptor left open.
m_exit ==
  /\ mainpc = "close"
  /\ mainpc' = "exited"
  /\ parentFds' = {}
  /\ UNCHANGED <<ioError, errno, actvConns, stillHandlingRequests, sigPending, brk, tvNsecValid,
                 sessFD, backlog, workerVars, c2s, s2c, clientVars>>

(* --------------------- server: connection worker --------------------- *)

\* The client of session w has shut its socket down (or its process ended).
PeerClosed(w) == cpc[w] \in {"done", "failed"}

\* A changed line 312: the popen failure returns from handle_request at once.
WorkerBreak_return(w, why) ==
  /\ wwhy' = [wwhy EXCEPT ![w] = why]
  /\ wpc' = [wpc EXCEPT ![w] = IF why = "popen" THEN "return" ELSE "teardown"]

\* The worker's loop ends at the break named why.
WorkerBreak(w, why) ==
  /\ wwhy' = [wwhy EXCEPT ![w] = why]
  /\ wpc' = [wpc EXCEPT ![w] = "teardown"]

\* A changed line 300: only a negative result ends the loop.
RecvEndsLoop_neg(n) == n < 0

\* if (bytesRead <= 0) break;
RecvEndsLoop(n) == n <= 0

\* send(sessFD, result.c_str(), result.size()+1, 0): the length asked for.
SendLength(res) == Len(res) + 1

\* ppoll: revents has POLLHUP and not POLLIN: break.
w_ppoll_hup(w) ==
  /\ wpc[w] = "ppoll"
  /\ c2s[w] = <<>>
  /\ PeerClosed(w)
  /\ WorkerBreak(w, "hup")
  /\ UNCHANGED <<ioError, mainVars, sigPending, backlog, buffer, result, unsent, wire, handled,
                 c2s, s2c, clientVars>>

\* ppoll: timeout, or EINTR (the worker inherits the handler): continue.
w_ppoll_idle(w) ==
  /\ wpc[w] = "ppoll"
  /\ c2s[w] = <<>>
  /\ ~PeerClosed(w)
  /\ UNCHANGED vars

\* ppoll: -1 with errno other than EINTR: perror, break.
w_ppoll_error(w) ==
  /\ wpc[w] = "ppoll"
  /\ WorkerBreak(w, "pollerr")
  /\ ioError' = TRUE
  /\ UNCHANGED <<mainVars, sigPending, backlog, buffer, result, unsent, wire, handled,
                 c2s, s2c, clientVars>>

\* ppoll: revents has POLLIN (bytes to read, or the peer's end of stream); then
\* recv(sessFD, buffer, BUFFERSIZE, 0): what is there, up to BUFFERSIZE bytes;
\* 0 at the end of the stream; -1 on a connection the peer has reset.
w_recv(w) ==
  /\ wpc[w] = "ppoll"
  /\ c2s[w] # <<>> \/ PeerClosed(w)
  /\ \E bytesRead \in {Min(Len(c2s[w]), BUFFERSIZE)} \cup (IF PeerClosed(w) THEN {-1} ELSE {}) :
       /\ ioError' = (ioError \/ bytesRead < 0)
       /\ IF RecvEndsLoop(bytesRead)
          THEN /\ WorkerBreak(w, "recv")
               /\ UNCHANGED <<buffer, c2s>>
          ELSE /\ buffer' = [buffer EXCEPT ![w] = SubSeq(c2s[w], 1, bytesRead)]
               /\ c2s' = [c2s EXCEPT ![w] = SubSeq(c2s[w], bytesRead + 1, Len(c2s[w]))]
               /\ wpc' = [wpc EXCEPT ![w] = "popen"]
               /\ UNCHANGED wwhy
  /\ UNCHANGED <<mainVars, sigPending, backlog, result, unsent, wire, handled, s2c,
                 clientVars>>

\* popen(buffer, "r") and the fgets loop: result is the captured output.
w_popen_ok(w) ==
  /\ wpc[w] = "popen"
  /\ result' = [result EXCEPT ![w] = fgets_loop(popen_output(CStr(buffer[w])))]
  /\ handled' = [handled EXCEPT ![w] = Append(@, CStr(buffer[w]))]
  /\ wpc' = [wpc EXCEPT ![w] = "send"]
  /\ UNCHANGED <<ioError, mainVars, sigPending, backlog, wwhy, buffer, unsent, wire, c2s, s2c,
                 clientVars>>

\* popen returns NULL: perror, break.
w_popen_fail(w) ==
  /\ wpc[w] = "popen"
  /\ WorkerBreak(w, "popen")
  /\ ioError' = TRUE
  /\ buffer' = [buffer EXCEPT ![w] = <<>>]
  /\ UNCHANGED <<mainVars, sigPending, backlog, result, unsent, wire, handled, c2s, s2c,
                 clientVars>>

\* send(): it takes n of the bytes asked for (all of them, or fewer), or fails
\* (-1) on a connection the peer has closed.  Only n < 0 is looked at.
w_send(w) ==
  /\ wpc[w] = "send"
  /\ LET msg  == WithNul(result[w])
         want == SendLength(result[w])
     IN  \E n \in (IF want = 0 THEN {0} ELSE 1..want)
                    \cup (IF PeerClosed(w) THEN {-1} ELSE {}) :
           /\ ioError' = (ioError \/ n < 0)
           /\ IF n < 0
              THEN
                /\ WorkerBreak(w, "send")
                /\ buffer' = [buffer EXCEPT ![w] = <<>>]
                /\ result' = [result EXCEPT ![w] = <<>>]
                /\ UNCHANGED <<unsent, wire, s2c>>
              ELSE
                /\ unsent' = [unsent EXCEPT ![w] = want - n]
                /\ buffer' = [buffer EXCEPT ![w] = <<>>]
                /\ result' = [result EXCEPT ![w] = <<>>]
                /\ wire' = [wire EXCEPT ![w] = @ \o SubSeq(msg, 1, n)]
                /\ s2c' = [s2c EXCEPT ![w] =
                             IF PeerClosed(w) THEN @ ELSE @ \o SubSeq(msg, 1, n)]
                /\ wpc' = [wpc EXCEPT ![w] = "ppoll"]
                /\ UNCHANGED wwhy
  /\ UNCHANGED <<mainVars, sigPending, backlog, handled, c2s, clientVars>>

\* delete[] host, service; shutdown(sessFD, SHUT_RDWR); close(sessFD).
w_teardown(w) ==
  /\ wpc[w] = "teardown"
  /\ wpc' = [wpc EXCEPT ![w] = "kill"]
  /\ wwhy' = [wwhy EXCEPT ![w] = "none"]
  /\ unsent' = [unsent EXCEPT ![w] = 0]
  /\ wire' = [wire EXCEPT ![w] = <<>>]
  /\ handled' = [handled EXCEPT ![w] = <<>>]
  /\ c2s' = [c2s EXCEPT ![w] = <<>>]
  /\ UNCHANGED <<ioError, mainVars, sigPending, backlog, buffer, result, s2c, clientVars>>

\* kill(serverpid, SIGCHLD)
w_kill(w) ==
  /\ wpc[w] = "kill"
  /\ RaiseSIGCHLD
  /\ wpc' = [wpc EXCEPT ![w] = "return"]
  /\ UNCHANGED <<ioError, mainVars, backlog, wwhy, buffer, result, unsent, wire, handled, c2s, s2c,
                 clientVars>>

\* handle_request returns, main returns EXIT_SUCCESS: the child process ends and
\* the kernel sends its parent a SIGCHLD of its own.
w_exit(w) ==
  /\ wpc[w] = "return"
  /\ RaiseSIGCHLD
  /\ wpc' = [wpc EXCEPT ![w] = "exited"]
  /\ UNCHANGED <<ioError, mainVars, backlog, wwhy, buffer, result, unsent, wire, handled, c2s, s2c,
                 clientVars>>

(* ------------------------------ client ------------------------------- *)

\* The server's end of connection c is closed: its worker has shut it down, or
\* the server process ended before a worker was forked for it.
ServerGone(c) ==
  \/ wpc[c] \in {"kill", "return", "exited", "reaped"}
  \/ wpc[c] = "none" /\ ~ListenOpen

\* A changed line 147: "exit" is written like any other command.
client_bytes_always(cmd) == WithNul(cmd)

\* if (command == "exit") break;  write(sessFD, command.c_str(), command.size()+1):
\* the bytes written for the input cmd.
client_bytes(cmd) == IF cmd = EXIT THEN <<>> ELSE WithNul(cmd)

\* cout << buffer << '\n'
show(chunk) == cout_chunk(chunk)

\* Every client numbered below c has been started.
MayStart(c) == IF c = 1 THEN TRUE ELSE cpc[c - 1] # "init"

\* Option parsing and connect() to a listening server.  Clients are numbered in
\* the order in which they start.
c_connect_ok(c) ==
  /\ cpc[c] = "init"
  /\ MayStart(c)
  /\ ListenOpen
  /\ backlog' = Append(backlog, c)
  /\ cpc' = [cpc EXCEPT ![c] = "top"]
  /\ UNCHANGED <<ioError, mainVars, sigPending, workerVars, c2s, s2c, run, cwhy, noninteractive,
                 command, wrote, stdin, typed, rcvd, display, lastread>>

\* connect() fails on every address: "Could not connect", EXIT_FAILURE.
c_connect_fail(c) ==
  /\ cpc[c] = "init"
  /\ MayStart(c)
  /\ ~ListenOpen
  /\ cpc' = [cpc EXCEPT ![c] = "failed"]
  /\ UNCHANGED <<ioError, mainVars, sigPending, backlog, workerVars, c2s, s2c, run, cwhy,
                 noninteractive, command, wrote, stdin, typed, rcvd, display, lastread>>

\* Top of the client's loop: getline in interactive mode, the "exit" test, write.
\* write() sends all the bytes, or fails (-1) on a connection that is gone.
c_command(c) ==
  /\ cpc[c] = "top"
  /\ noninteractive[c] \/ stdin[c] # <<>>
  /\ LET cmd == IF noninteractive[c] THEN command[c] ELSE Head(stdin[c]) IN
       /\ command' = [command EXCEPT ![c] = cmd]
       /\ stdin' = [stdin EXCEPT ![c] = IF noninteractive[c] THEN @ ELSE Tail(@)]
       /\ typed' = [typed EXCEPT ![c] = IF noninteractive[c] THEN @ ELSE Append(@, cmd)]
       /\ \E ok \in {TRUE} \cup (IF cmd # EXIT /\ ServerGone(c) THEN {FALSE} ELSE {}) :
            /\ ioError' = (ioError \/ ~ok)
            /\ IF ok
               THEN
                 /\ wrote' = [wrote EXCEPT ![c] = @ \o client_bytes(cmd)]
                 /\ c2s' = [c2s EXCEPT ![c] =
                              IF ServerGone(c) THEN @ ELSE @ \o client_bytes(cmd)]
                 /\ cpc' = [cpc EXCEPT ![c] = IF cmd = EXIT THEN "teardown" ELSE "read"]
                 /\ cwhy' = [cwhy EXCEPT ![c] = IF cmd = EXIT THEN "exit" ELSE @]
               ELSE
                 /\ cpc' = [cpc EXCEPT ![c] = "teardown"]
                 /\ cwhy' = [cwhy EXCEPT ![c] = "write"]
                 /\ UNCHANGED <<wrote, c2s>>
  /\ rcvd' = [rcvd EXCEPT ![c] = <<>>]
  /\ display' = [display EXCEPT ![c] = <<>>]
  /\ lastread' = [lastread EXCEPT ![c] = 0]
  /\ UNCHANGED <<mainVars, sigPending, backlog, workerVars, s2c, run, noninteractive>>

\* One pass of the receive loop: read(sessFD, buffer, BUFFERSIZE).
c_read(c) ==
  /\ cpc[c] = "read"
  /\ \E thisreadn \in
         IF s2c[c] # <<>> THEN 1..Min(Len(s2c[c]), ClientBUFFERSIZE)
         ELSE IF ServerGone(c) THEN {0, -1} ELSE {} :
       /\ lastread' = [lastread EXCEPT ![c] = IF thisreadn < 0 THEN 0 ELSE thisreadn]
       /\ wrote' = [wrote EXCEPT ![c] = IF thisreadn < 0 THEN <<>> ELSE @]
       /\ typed' = [typed EXCEPT ![c] = IF thisreadn < 0 THEN <<>> ELSE @]
       /\ ioError' = (ioError \/ thisreadn < 0)
       /\ IF thisreadn < 0
          THEN /\ cpc' = [cpc EXCEPT ![c] = "failed"]
               /\ rcvd' = [rcvd EXCEPT ![c] = <<>>]
               /\ display' = [display EXCEPT ![c] = <<>>]
               /\ s2c' = [s2c EXCEPT ![c] = <<>>]
          ELSE IF thisreadn = 0
          THEN /\ cpc' = [cpc EXCEPT ![c] = "after"]
               /\ UNCHANGED <<rcvd, display, s2c>>
          ELSE LET chunk == SubSeq(s2c[c], 1, thisreadn)
               IN  /\ rcvd' = [rcvd EXCEPT ![c] = @ \o chunk]
                   /\ display' = [display EXCEPT ![c] = @ \o show(chunk)]
                   /\ s2c' = [s2c EXCEPT ![c] = SubSeq(@, thisreadn + 1, Len(@))]
                   /\ cpc' = [cpc EXCEPT ![c] =
                                IF chunk[thisreadn] = NUL THEN "after" ELSE "read"]
  /\ UNCHANGED <<mainVars, sigPending, backlog, workerVars, c2s, run, cwhy, noninteractive,
                 command, stdin>>

\* After the receive loop: if (noninteractive) break;
c_after(c) ==
  /\ cpc[c] = "after"
  /\ cpc' = [cpc EXCEPT ![c] = IF noninteractive[c] THEN "teardown" ELSE "top"]
  /\ cwhy' = [cwhy EXCEPT ![c] = IF noninteractive[c] THEN "batch" ELSE @]
  /\ rcvd' = [rcvd EXCEPT ![c] = <<>>]
  /\ display' = [display EXCEPT ![c] = <<>>]
  /\ lastread' = [lastread EXCEPT ![c] = 0]
  /\ UNCHANGED <<ioError, mainVars, sigPending, backlog, workerVars, c2s, s2c, run, noninteractive,
                 command, wrote, stdin, typed>>

\* shutdown(sessFD, SHUT_RDWR); close(sessFD); return EXIT_SUCCESS.
c_teardown(c) ==
  /\ cpc[c] = "teardown"
  /\ cpc' = [cpc EXCEPT ![c] = "done"]
  /\ s2c' = [s2c EXCEPT ![c] = <<>>]
  /\ cwhy' = [cwhy EXCEPT ![c] = "none"]
  /\ wrote' = [wrote EXCEPT ![c] = <<>>]
  /\ typed' = [typed EXCEPT ![c] = <<>>]
  /\ UNCHANGED <<ioError, mainVars, sigPending, backlog, workerVars, c2s, run, noninteractive,
                 command, stdin, rcvd, display, lastread>>

(* --------------------------- specification --------------------------- *)

Next ==
  \/ m_ppoll_eintr
  \/ m_ppoll_error
  \/ m_ppoll_ready
  \/ m_ppoll_timeout
  \/ m_accept_ok
  \/ m_accept_fail
  \/ m_fork_ok
  \/ m_fork_fail
  \/ m_incr
  \/ m_waitpid_reap
  \/ m_waitpid_echild
  \/ m_exit
  \/ \E w \in Clients :
       \/ w_ppoll_hup(w)
       \/ w_ppoll_idle(w)
       \/ w_ppoll_error(w)
       \/ w_recv(w)
       \/ w_popen_ok(w)
       \/ w_popen_fail(w)
       \/ w_send(w)
       \/ w_teardown(w)
       \/ w_kill(w)
       \/ w_exit(w)
  \/ \E c \in Clients :
       \/ c_connect_ok(c)
       \/ c_connect_fail(c)
       \/ c_command(c)
       \/ c_read(c)
       \/ c_after(c)
       \/ c_teardown(c)

\* Several clients at once, each with a light run.
Spec == Init /\ [][Next]_vars

\* One connection, with every run of the client.
SpecSession == InitSession /\ [][Next]_vars

(* ------------------------------ claims ------------------------------- *)

\* The workers forked so far.
Spawned == {w \in Clients : wpc[w] # "none"}

\* The spawned workers that have not yet executed kill(serverpid, SIGCHLD).
Unsignaled == {w \in Clients : wpc[w] \in {"ppoll", "popen", "send", "teardown", "kill"}}

\* Client c's run sends no Request: -c exit, or "exit" typed first.
NoRequestRun(c) ==
  IF run[c].batch THEN run[c].cmd = EXIT ELSE Head(run[c].lines) = EXIT

\* Every Request of client c's run fits the worker's receive buffer.
RunFits(c) ==
  /\ Len(WithNul(run[c].cmd)) <= BUFFERSIZE
  /\ \A i \in 1..Len(run[c].lines) : Len(WithNul(run[c].lines[i])) <= BUFFERSIZE

\* The Responses to the commands cmds: each one's output and one sentinel.
RECURSIVE ResponsesOf(_)
ResponsesOf(cmds) ==
  IF cmds = <<>> THEN <<>>
  ELSE WithNul(popen_output(Head(cmds))) \o ResponsesOf(Tail(cmds))

\* The Requests for the lines cmds: each one's text and one NUL.
RECURSIVE RequestsOf(_)
RequestsOf(cmds) ==
  IF cmds = <<>> THEN <<>>
  ELSE WithNul(Head(cmds)) \o RequestsOf(Tail(cmds))

\* C1 (as claimed): when every client has connected, been served and
\* disconnected, no system call of the server, of a worker or of a client has
\* failed, and the server process has ended, the active-connection count is back
\* at zero.
C1_CountBackAtZero ==
  ( /\ mainpc = "exited"
    /\ brk \notin {"pollerr", "accept"}
    /\ ~ioError
    /\ \A c \in Clients : cpc[c] = "done" /\ wpc[c] = "reaped" )
  => actvConns = 0

\* C2: the active-connection count is never negative, although a worker raises
\* SIGCHLD twice (its kill and its exit).
C2_CountNeverNegative == actvConns >= 0

\* C2's case: the handler has run for a worker's kill, the worker has exited and
\* the SIGCHLD of its exit is pending.
C2_Witness ==
  /\ brk = "EINTR"
  /\ actvConns = 0
  /\ sigPending
  /\ \E w \in Clients : wpc[w] \in {"exited", "reaped"}

\* C3 (as claimed): the loop is left from an interrupted wait only with
\* ShutdownIntent set, that is with the count at zero; an interrupted wait with
\* other workers active goes on accepting.  Stated for the runs in which no
\* system call of a worker or of a client has failed.
C3_LeavesLoopOnlyOnShutdownIntent ==
  (brk = "EINTR" /\ ~ioError) => (stillHandlingRequests = FALSE /\ actvConns = 0)

\* C4 (as claimed): at the wait step the count equals the number of spawned
\* workers that have not yet signaled termination.
C4_CountEqualsUnsignaled ==
  mainpc = "ppoll" => actvConns = Cardinality(Unsignaled)

\* C4 (amended): at the wait step the count equals the number of workers spawned
\* so far, none of whose signals has been handled yet; it equals the number of
\* workers that have not yet signaled when no SIGCHLD is pending.
C4_CountAtWait ==
  mainpc = "ppoll" =>
    /\ actvConns = Cardinality(Spawned)
    /\ ~sigPending => actvConns = Cardinality(Unsignaled)

\* C4's case: the loop waits with two workers counted, one of which has signaled;
\* its SIGCHLD is pending.
C4_Witness ==
  /\ mainpc = "ppoll"
  /\ sigPending
  /\ actvConns = 2
  /\ Cardinality(Unsignaled) = 1

\* C5 (as claimed): when a worker is back at its wait, it has transmitted, for
\* the Requests that fitted its buffer and whose output holds no sentinel, exactly
\* one Response each: the command's output followed by one sentinel.
C5_OneResponsePerRequest ==
  \A w \in Clients :
    ( /\ wpc[w] = "ppoll"
      /\ RunFits(w)
      /\ \A i \in 1..Len(handled[w]) : NulCount(popen_output(handled[w][i])) = 0 )
    => wire[w] = ResponsesOf(handled[w])

\* C6 (as claimed): a worker that has received the next Request has sent the
\* whole of the previous Response, sentinel included.
C6_ResponseSentBeforeNextRecv ==
  \A w \in Clients : wpc[w] = "popen" => unsent[w] = 0

\* C7 (as claimed): when the receive loop ends on the sentinel, what was shown is
\* what is shown for the same bytes read as one chunk.
C7_ShownIndependentOfChunks ==
  \A c \in Clients :
    (cpc[c] = "after" /\ rcvd[c] # <<>> /\ rcvd[c][Len(rcvd[c])] = NUL)
    => display[c] = show(rcvd[c])

\* C8: a worker whose client closed without sending a Request, and whose wait did
\* not fail, leaves its loop at the silent break after recv or at the POLLHUP
\* break, has run no command and has transmitted no byte.
C8_HalfCloseNoResponse ==
  \A w \in Clients :
    (wpc[w] = "teardown" /\ NoRequestRun(w) /\ PeerClosed(w) /\ wwhy[w] # "pollerr")
    => /\ wwhy[w] \in {"recv", "hup"}
       /\ handled[w] = <<>>
       /\ wire[w] = <<>>

\* C8's case: the client closed without a Request and its worker left the loop.
C8_Witness ==
  \E w \in Clients :
    /\ wpc[w] = "teardown"
    /\ NoRequestRun(w)
    /\ PeerClosed(w)
    /\ wwhy[w] \in {"recv", "hup"}

\* C9 (as claimed): a -c client whose write did not fail has, when it leaves its
\* loop, sent exactly one Request: its command string and one NUL.
C9_BatchSendsOneRequest ==
  \A c \in Clients :
    (cpc[c] = "teardown" /\ noninteractive[c] /\ cwhy[c] # "write")
    => wrote[c] = WithNul(command[c])

\* C10: an interactive client that leaves its loop on "exit" has transmitted the
\* Requests of the lines typed before it and nothing for "exit" itself; its next
\* step is the shutdown and close of its socket.
C10_ExitSendsNothing ==
  \A c \in Clients :
    (cpc[c] = "teardown" /\ ~noninteractive[c] /\ cwhy[c] = "exit")
    => /\ typed[c] # <<>>
       /\ typed[c][Len(typed[c])] = EXIT
       /\ wrote[c] = RequestsOf(SubSeq(typed[c], 1, Len(typed[c]) - 1))

\* C10's case: "exit" typed after an earlier command.
C10_Witness ==
  \E c \in Clients :
    /\ cpc[c] = "teardown"
    /\ ~noninteractive[c]
    /\ cwhy[c] = "exit"
    /\ Len(typed[c]) >= 2
    /\ wrote[c] # <<>>

\* The workers still serving their connection.
Serving == {w \in Clients : wpc[w] \in {"ppoll", "popen", "send"}}

\* No client has failed, finished or left its loop: a failed system call was a
\* worker's.
ClientsUntouched ==
  \A c \in Clients : cpc[c] \in {"absent", "init", "top", "read", "after"}

\* C11 (as claimed): after a failure inside one worker (no client has failed),
\* while another worker is still serving its connection, the Admission Loop has
\* not been ended by the termination notification: it keeps accepting.
C11_WorkerFailureKeepsAccepting ==
  (ioError /\ ClientsUntouched /\ Serving # {}) => brk # "EINTR"

\* The workers that have executed kill(serverpid, SIGCHLD).
Signaled == {w \in Clients : wpc[w] \in {"return", "exited", "reaped"}}

\* C12 (as claimed): when no SIGCHLD is pending in the living parent (it is not
\* between a fork and its increment, and no system call of a worker or client
\* has failed), the handler has run once for every worker that has signaled: the
\* count is the number of workers spawned less the number that have signaled.
C12_OneDecrementPerTermination ==
  (~sigPending /\ ListenOpen /\ mainpc # "incr" /\ ~ioError)
  => actvConns = Cardinality(Spawned) - Cardinality(Signaled)

\* C13: the handler runs (a pending SIGCHLD is consumed) only while the parent is
\* at its wait step; every spawned worker has then been counted, and the step
\* is a decrement by one, not interleaved with an increment.
C13_HandlerOnlyAtWait ==
  [][(sigPending /\ ~sigPending')
       => (mainpc = "ppoll" /\ actvConns = Cardinality(Spawned)
           /\ actvConns' = actvConns - 1)]_vars

\* C13's case: a worker has been forked and is not yet counted, and a SIGCHLD
\* has arrived and is held pending.
C13_Witness ==
  /\ mainpc = "incr"
  /\ sigPending
  /\ actvConns = Cardinality(Spawned) - 1

\* The workers the parent has forked and not reaped.
Unreaped == {w \in Clients : wpc[w] \notin {"none", "reaped"}}

\* C14 (as claimed): with ShutdownIntent set (and no failed system call in a
\* worker or client), the parent is never suspended in its wait-for-any-child
\* loop: a terminated worker is there to reap, or no child is left.
C14_ReapNeverSuspends ==
  (mainpc = "reap" /\ stillHandlingRequests = FALSE /\ ~ioError)
  => (Unreaped = {} \/ \E w \in Clients : wpc[w] = "exited")

\* C14 (amended): the parent leaves its wait-for-any-child loop only when no
\* worker is left unreaped, towards the close of the listening socket, and from
\* there it only exits with status 0.
C14_ReapAllThenClose ==
  [][/\ (mainpc = "reap" /\ mainpc' # "reap") => (mainpc' = "close" /\ Unreaped = {})
     /\ (mainpc = "close" /\ mainpc' # "close") => (mainpc' = "exited" /\ Unreaped = {})]_vars

\* C14's case: the parent is in its reap loop while a worker still serves its
\* connection and no terminated worker is there to reap.
C14_Witness ==
  /\ mainpc = "reap"
  /\ Serving # {}
  /\ \A w \in Clients : wpc[w] # "exited"

\* The steps of a worker inside its loop.
InLoop == {"ppoll", "popen", "send"}

C16_ParentHoldsNoSession == mainpc = "ppoll" => parentFds = {}

\* C17 (as claimed): the worker of a client whose one Request is larger than the
\* receive buffer runs one command and transmits one sentinel, when every send
\* took all its bytes and no system call failed.
C17_OversizedRunsOnce ==
  \A w \in Clients :
    ( /\ run[w].batch
      /\ Len(WithNul(run[w].cmd)) > BUFFERSIZE
      /\ unsent[w] = 0
      /\ ~ioError )
    => (Len(handled[w]) <= 1 /\ NulCount(wire[w]) <= 1)

\* The steps of the parent inside its accept loop.
MainLoop == {"ppoll", "accept", "fork", "incr"}

\* C18: once ShutdownIntent is set the parent is past its accept loop: it
\* accepts no connection and forks no worker.
C18_NoAcceptAfterShutdownIntent ==
  stillHandlingRequests = FALSE => mainpc \notin MainLoop

\* C18's case: ShutdownIntent is set and a client waits on the listening socket.
C18_Witness ==
  /\ stillHandlingRequests = FALSE
  /\ backlog # <<>>
  /\ ListenOpen

\* C19 (as claimed): while no client has connected, the server is at its wait
\* step with ShutdownIntent unset: it has not left its loop.
C19_NoClientNoExit ==
  (\A c \in Clients : cpc[c] \in {"init", "absent"})
  => (mainpc = "ppoll" /\ stillHandlingRequests = TRUE)

\* C20: when the server process has returned from main, every worker it spawned
\* has terminated and has been reaped.
C20_ExitOnlyAfterAllReaped ==
  mainpc = "exited" => \A w \in Clients : wpc[w] \in {"none", "reaped"}

\* C20's case: the loop ended on a notification while another worker was still
\* counted, and the process has exited after reaping two workers.
C20_Witness ==
  /\ mainpc = "exited"
  /\ brk = "EINTR"
  /\ actvConns >= 1
  /\ Cardinality({w \in Clients : wpc[w] = "reaped"}) >= 2

====
